---- MODULE Spec2Model ----
(***************************************************************************)
(* Model of performance/LargeMockCodebase/generate_code.py: the generator  *)
(* of the mock C# code base used to load-test the determinism analyzer.    *)
(*                                                                         *)
(* Text is modelled by its pieces: a formatted string is the tuple of its  *)
(* literal parts and of the decimal digits of the numbers it embeds.       *)
(*                                                                         *)
(* Two specifications share the generator's actions:                       *)
(*   Spec     runs main (lines 145-201), possibly several times on the     *)
(*            same directory, with every file write able to fail          *)
(*            (FairSpec: one run, which does not stop half-way);           *)
(*   SpecGen  calls one generate_* function on drawn arguments and         *)
(*            explores every outcome of random.sample.                     *)
(* Spec explores, at each pick of random.sample, only the first            *)
(* MainDrawWidth entries still in the pool; SpecGen explores them all.     *)
(*                                                                         *)
(* The list `methods` keeps the sampled lines of its newest method only:   *)
(* the sampled lines of earlier methods are elided when the next call of   *)
(* generate_orchestrator_violations starts (their other lines are kept).   *)
(* A file on disk is kept by its structure (namespace, class name, number  *)
(* of methods), its completeness and the run that wrote it.                *)
(***************************************************************************)
EXTENDS Integers, Sequences, FiniteSets, TLC

VARIABLES
    pc,            \* position in main, or "gen" / "returned" inside a call
    phase,         \* which loop of main is running; "unit" in SpecGen
    run,           \* number of the current invocation of main
    i,             \* main's loop variable
    fn,            \* the generate_* function being executed
    namespace,     \* its arguments
    class_name,
    method_count,
    gen_i,         \* the generator's loop variable i
    k,             \* pending sample size (0: no sample is being drawn)
    sample,        \* positions of the catalog picked so far by random.sample
    methods,       \* the generator's list `methods`
    sampler_calls, \* calls of generate_orchestrator_violations in this call
    content,       \* the text returned by the generator
    ncalls,        \* SpecGen: calls made so far with the same arguments
    prev,          \* SpecGen: text returned by the previous call
    fs,            \* the output directory: file name -> file
    log,           \* names of the files written by this run, in order
    stdout,        \* lines printed by this run
    failed         \* name of the file whose write raised, or NoFile

vars == <<pc, phase, run, i, fn, namespace, class_name, method_count, gen_i, k,
          sample, methods, sampler_calls, content, ncalls, prev, fs, log,
          stdout, failed>>

(***************************************************************************)
(* Bounds of the exploration.                                              *)
(***************************************************************************)
MaxRuns == 2
MainDrawWidth == 1
MaxMethodCount == 11
MaxCalls == 2

(***************************************************************************)
(* Program constants.                                                      *)
(***************************************************************************)
NumAzureOrchestrators == 50
NumAzureActivities == 30
NumDtfOrchestrators == 25
AzureMethodCount == 8
ActivityMethodCount == 5
DtfMethodCount == 6
BatchSize == 10
MinViolations == 1
MaxViolations == 4
PadWidth == 3

\* line 27, 69, 107: the default of the method_count parameter
DefaultMethodCount(f) ==
    CASE f = "generate_orchestrator" -> 5
      [] f = "generate_activity" -> 3
      [] f = "generate_dtf_orchestrator" -> 5

(***************************************************************************)
(* Number formatting.                                                      *)
(***************************************************************************)
RECURSIVE Dec(_)
\* f"{n}": the decimal digits of n, most significant first
Dec(n) == IF n < 10 THEN <<n>> ELSE Append(Dec(n \div 10), n % 10)

\* f"{n:03d}": the decimal digits of n, left-padded with zeros to 3 places
Pad3(n) ==
    LET d == Dec(n)
    IN  IF Len(d) >= PadWidth THEN d
        ELSE [x \in 1..(PadWidth - Len(d)) |-> 0] \o d

(***************************************************************************)
(* generate_orchestrator_violations (lines 11-25).                         *)
(***************************************************************************)
violations == <<
    "DateTime.Now",
    "DateTime.UtcNow",
    "Guid.NewGuid()",
    "new Random().Next()",
    "Environment.GetEnvironmentVariable(\"TEST\")",
    "Thread.Sleep(1000)",
    "Task.Delay(1000)",
    "File.ReadAllText(\"test.txt\")",
    "HttpClient.GetAsync(\"https://example.com\")",
    "Task.Run(() => {})" >>

\* random.randint(a, b): any integer of a..b, both ends included
RandInt(a, b) == a..b

\* k=random.randint(1, 4)
SampleSizes == RandInt(MinViolations, MaxViolations)

\* (variant) sampling with replacement, as random.choices does
PoolWithReplacement(picked) == 1..Len(violations)

\* the positions of the population random.sample has not picked yet
Pool(picked) == (1..Len(violations)) \ {picked[x] : x \in 1..Len(picked)}

\* the first `width` positions of the pool, in catalog order
Pickable(picked, width) ==
    {p \in Pool(picked) : Cardinality({q \in Pool(picked) : q < p}) < width}

\* the list random.sample returns for the picked positions
Sampled(picked) == [x \in 1..Len(picked) |-> violations[picked[x]]]

(***************************************************************************)
(* generate_orchestrator (lines 27-67).                                    *)
(***************************************************************************)
\* line 33: one `var temp{j} = {v};` per enumerate(violations)
ViolationCode(vs) ==
    [x \in 1..Len(vs) |-> [name |-> <<"temp", Dec(x - 1)>>, value |-> vs[x]]]

\* (variant) the first activity call is named by the method index itself
OrchestratorMethodByIndex(cn, idx, vs) ==
    [detail |-> TRUE,
     function_name |-> <<cn, "_Method", Dec(idx)>>,
     name |-> <<"Method", Dec(idx), "Async">>,
     locals |-> ViolationCode(vs),
     calls |-> << [name |-> <<"Activity", Dec(idx)>>, arg |-> <<"data">>],
                  [name |-> <<"CalculateActivity", <<>> >>, arg |-> Dec(idx)] >>,
     ret |-> "completed"]

\* lines 35-48
OrchestratorMethod(cn, idx, vs) ==
    [detail |-> TRUE,
     function_name |-> <<cn, "_Method", Dec(idx)>>,
     name |-> <<"Method", Dec(idx), "Async">>,
     locals |-> ViolationCode(vs),
     calls |-> << [name |-> <<"Activity", Dec(idx % 10)>>, arg |-> <<"data">>],
                  [name |-> <<"CalculateActivity", <<>> >>, arg |-> Dec(idx)] >>,
     ret |-> "completed"]

OrchestratorUsings ==
    << "System", "System.IO", "System.Net.Http", "System.Threading",
       "System.Threading.Tasks", "Microsoft.Azure.WebJobs",
       "Microsoft.Azure.WebJobs.Extensions.DurableTask",
       "Microsoft.Extensions.Logging" >>

(***************************************************************************)
(* generate_activity (lines 69-105).                                       *)
(***************************************************************************)
\* lines 74-89
ActivityMethod(cn, idx) ==
    [function_name |-> <<cn, "_Activity", Dec(idx)>>,
     name |-> <<"Activity", Dec(idx), "Async">>,
     logged |-> <<"Processing {input} in activity ", Dec(idx)>>,
     delay |-> <<10, 100>>,
     locals |-> << [name |-> <<"timestamp">>, value |-> "DateTime.Now"],
                   [name |-> <<"guid">>, value |-> "Guid.NewGuid()"],
                   [name |-> <<"env">>,
                    value |-> "Environment.GetEnvironmentVariable(\"PATH\")"] >>,
     ret |-> <<"Activity", Dec(idx), " result: {input}-{timestamp}-{guid}">>]

ActivityUsings ==
    << "System", "System.Threading.Tasks", "Microsoft.Azure.WebJobs",
       "Microsoft.Azure.WebJobs.Extensions.DurableTask",
       "Microsoft.Extensions.Logging" >>

(***************************************************************************)
(* generate_dtf_orchestrator (lines 107-143).                              *)
(***************************************************************************)
\* lines 115-126
DtfMethod(idx, vs) ==
    [detail |-> TRUE,
     function_name |-> << >>,
     name |-> <<"Method", Dec(idx), "Async">>,
     locals |-> ViolationCode(vs),
     calls |-> << [name |-> <<"DtfActivity", Dec(idx % 10)>>, arg |-> <<"data">>],
                  [name |-> <<"DtfCalculateActivity", <<>> >>, arg |-> Dec(idx)] >>,
     ret |-> "dtf completed"]

DtfUsings ==
    << "System", "System.IO", "System.Net.Http", "System.Threading",
       "System.Threading.Tasks", "Microsoft.DurableTask" >>

(***************************************************************************)
(* The generators as steps.                                                *)
(***************************************************************************)
Orchestrators == {"generate_orchestrator", "generate_dtf_orchestrator"}
Generators == Orchestrators \cup {"generate_activity"}

NoContent == [usings |-> << >>, namespace |-> << >>, class_name |-> << >>,
              methods |-> << >>]

\* the sampled lines of the methods rendered so far leave the state
Elide(ms) ==
    [x \in 1..Len(ms) |-> [ms[x] EXCEPT !.detail = FALSE, !.locals = << >>]]

\* lines 35-49 and 115-127: the method of this iteration
RenderMethod(f, cn, idx, vs) ==
    IF f = "generate_orchestrator" THEN OrchestratorMethod(cn, idx, vs)
    ELSE DtfMethod(idx, vs)

\* lines 51-67, 92-105, 129-143: the class text
ClassText(f, ns, cn, ms) ==
    [usings |-> CASE f = "generate_orchestrator" -> OrchestratorUsings
                  [] f = "generate_activity" -> ActivityUsings
                  [] f = "generate_dtf_orchestrator" -> DtfUsings,
     namespace |-> ns,
     class_name |-> cn,
     methods |-> ms]

\* (variant) the loop stops one iteration early
LoopDoneEarly(idx, count) == idx + 1 >= count

\* `for i in range(method_count)`: the loop is over
LoopDone(idx, count) == idx >= count

\* where a generator returns to
ReturnPc == IF phase = "unit" THEN "returned" ELSE "write"

\* lines 32 and 112, with line 25 up to random.randint: the call of
\* generate_orchestrator_violations starts and the sample size is drawn
DrawSize ==
    /\ pc = "gen"
    /\ fn \in Orchestrators
    /\ ~LoopDone(gen_i, method_count)
    /\ k = 0
    /\ \E size \in SampleSizes : k' = size
    /\ sample' = << >>
    /\ methods' = Elide(methods)
    /\ sampler_calls' = sampler_calls + 1
    /\ UNCHANGED <<pc, phase, run, i, fn, namespace, class_name, method_count,
                   gen_i, content, ncalls, prev, fs, log, stdout, failed>>

\* line 25: random.sample picks one more position; with the last pick the
\* sample is returned and lines 33-49 (113-127) render and append the method
Pick(width) ==
    /\ pc = "gen"
    /\ fn \in Orchestrators
    /\ k > 0
    /\ \E p \in Pickable(sample, width) :
          LET picked == Append(sample, p)
          IN  IF Len(picked) < k
              THEN /\ sample' = picked
                   /\ UNCHANGED <<k, methods, gen_i>>
              ELSE /\ sample' = << >>
                   /\ k' = 0
                   /\ methods' = Append(methods,
                          RenderMethod(fn, class_name, gen_i, Sampled(picked)))
                   /\ gen_i' = gen_i + 1
    /\ UNCHANGED <<pc, phase, run, i, fn, namespace, class_name, method_count,
                   sampler_calls, content, ncalls, prev, fs, log, stdout, failed>>

\* (variant) generate_activity injects one sampled violation per method
ActivityStepSampling ==
    /\ pc = "gen"
    /\ fn = "generate_activity"
    /\ gen_i < method_count
    /\ \E p \in 1..Len(violations) :
          methods' = Append(methods,
              [ActivityMethod(class_name, gen_i) EXCEPT
                  !.locals = Append(@, [name |-> <<"temp", <<0>> >>,
                                        value |-> violations[p]])])
    /\ gen_i' = gen_i + 1
    /\ sampler_calls' = sampler_calls + 1
    /\ UNCHANGED <<pc, phase, run, i, fn, namespace, class_name, method_count, k,
                   sample, content, ncalls, prev, fs, log, stdout, failed>>

\* lines 73-90: one iteration of generate_activity's loop
ActivityStep ==
    /\ pc = "gen"
    /\ fn = "generate_activity"
    /\ ~LoopDone(gen_i, method_count)
    /\ methods' = Append(methods, ActivityMethod(class_name, gen_i))
    /\ gen_i' = gen_i + 1
    /\ UNCHANGED <<pc, phase, run, i, fn, namespace, class_name, method_count, k,
                   sample, sampler_calls, content, ncalls, prev, fs, log, stdout,
                   failed>>

\* lines 51-67, 92-105, 129-143: the generator returns the class text
Return ==
    /\ pc = "gen"
    /\ k = 0
    /\ LoopDone(gen_i, method_count)
    /\ content' = ClassText(fn, namespace, class_name, methods)
    /\ pc' = ReturnPc
    /\ UNCHANGED <<phase, run, i, fn, namespace, class_name, method_count, gen_i,
                   k, sample, methods, sampler_calls, ncalls, prev, fs, log,
                   stdout, failed>>

(***************************************************************************)
(* main (lines 145-201).                                                   *)
(***************************************************************************)
\* lines 152, 162, 172
AzureNamespace(idx) == <<"Performance.Azure.Batch", Dec(idx \div BatchSize)>>
ActivityNamespace(idx) ==
    <<"Performance.Azure.Activities.Batch", Dec(idx \div BatchSize)>>
DtfNamespace(idx) == <<"Performance.DTF.Batch", Dec(idx \div BatchSize)>>

\* lines 153, 163, 173
AzureClassName(idx) == <<"TestOrchestrator", Pad3(idx)>>
ActivityClassName(idx) == <<"TestActivity", Pad3(idx)>>
DtfClassName(idx) == <<"DtfOrchestrator", Pad3(idx)>>

\* lines 156, 166, 176, 197: the file names (all in output_dir)
AzureFileName(idx) == <<"Azure_Orchestrator_", Pad3(idx), ".cs">>
\* (variant) the activity files take the orchestrator files' prefix
ActivityFileNameCopied(idx) == <<"Azure_Orchestrator_", Pad3(idx), ".cs">>
ActivityFileName(idx) == <<"Azure_Activity_", Pad3(idx), ".cs">>
DtfFileName(idx) == <<"DTF_Orchestrator_", Pad3(idx), ".cs">>
SummaryFileName == <<"CodebaseSummary", << >>, ".txt">>

NoFile == <<"", << >>, "">>

\* the file the current iteration writes
FileName ==
    CASE phase = "azure" -> AzureFileName(i)
      [] phase = "activity" -> ActivityFileName(i)
      [] phase = "dtf" -> DtfFileName(i)

\* (variant) the last loop is one iteration short
LoopCountShort(p) ==
    CASE p = "azure" -> NumAzureOrchestrators
      [] p = "activity" -> NumAzureActivities
      [] p = "dtf" -> NumDtfOrchestrators - 1

\* range(50), range(30), range(25)
LoopCount(p) ==
    CASE p = "azure" -> NumAzureOrchestrators
      [] p = "activity" -> NumAzureActivities
      [] p = "dtf" -> NumDtfOrchestrators

\* (variant) the DTF loop runs before the activity loop
NextPhaseSwapped(p) ==
    CASE p = "azure" -> "dtf"
      [] p = "dtf" -> "activity"
      [] p = "activity" -> "summary"

\* the loops of main follow each other: lines 151, 161, 171, 181
NextPhase(p) ==
    CASE p = "azure" -> "activity"
      [] p = "activity" -> "dtf"
      [] p = "dtf" -> "summary"

\* lines 181-182
total_files == 50 + 30 + 25
total_methods == (50 * 8) + (30 * 5) + (25 * 6)

\* lines 184-195: the summary text, by the numbers it states
summary ==
    [total_files |-> total_files,
     total_methods |-> total_methods,
     azure |-> [classes |-> 50, methods |-> 8, product |-> 400],
     activities |-> [classes |-> 30, methods |-> 5, product |-> 150],
     dtf |-> [classes |-> 25, methods |-> 6, product |-> 150],
     orchestrator_methods |-> 550,
     activity_methods |-> 150,
     expected |-> [low |-> 2200, high |-> 2750],
     per_method |-> [low |-> 4, high |-> 5]]

\* (variant) open(filename, 'a'): the text is added to the file's text
WriteFileAppend(dir, name, text) ==
    [x \in (DOMAIN dir) \cup {name} |->
        IF x = name
        THEN [text |-> IF name \in DOMAIN dir /\ name[3] = ".cs"
                       THEN [text EXCEPT !.method_count =
                                @ + dir[name].text.method_count]
                       ELSE text,
              complete |-> TRUE, run |-> run]
        ELSE dir[x]]

\* `with open(filename, 'w') as f: f.write(content)`: the file is created
\* or replaced, whatever the directory held under that name
WriteFile(dir, name, text) ==
    [x \in (DOMAIN dir) \cup {name} |->
        IF x = name THEN [text |-> text, complete |-> TRUE, run |-> run]
        ELSE dir[x]]

\* a write that raises after open() truncated or created the file
TruncateFile(dir, name) ==
    [x \in (DOMAIN dir) \cup {name} |->
        IF x = name THEN [text |-> << >>, complete |-> FALSE, run |-> run]
        ELSE dir[x]]

\* the class text as the directory keeps it
Stored(text) ==
    [namespace |-> text.namespace,
     class_name |-> text.class_name,
     method_count |-> Len(text.methods)]

\* (variant) the exception is swallowed and the write is tried again
OnWriteErrorRetry(at) == at

\* no try/except in main: an exception of open() or write() leaves main
OnWriteError(at) == "aborted"

\* the generator call of the current iteration
CallGenerator(f, ns, cn, count) ==
    /\ fn' = f
    /\ namespace' = ns
    /\ class_name' = cn
    /\ method_count' = count
    /\ gen_i' = 0
    /\ k' = 0
    /\ sample' = << >>
    /\ methods' = << >>
    /\ sampler_calls' = 0
    /\ pc' = "gen"

\* lines 151-154
CallGenerateOrchestrator ==
    /\ pc = "call"
    /\ phase = "azure"
    /\ CallGenerator("generate_orchestrator", AzureNamespace(i),
                     AzureClassName(i), AzureMethodCount)
    /\ UNCHANGED <<phase, run, i, content, ncalls, prev, fs, log, stdout, failed>>

\* lines 161-164
CallGenerateActivity ==
    /\ pc = "call"
    /\ phase = "activity"
    /\ CallGenerator("generate_activity", ActivityNamespace(i),
                     ActivityClassName(i), ActivityMethodCount)
    /\ UNCHANGED <<phase, run, i, content, ncalls, prev, fs, log, stdout, failed>>

\* lines 171-174
CallGenerateDtfOrchestrator ==
    /\ pc = "call"
    /\ phase = "dtf"
    /\ CallGenerator("generate_dtf_orchestrator", DtfNamespace(i),
                     DtfClassName(i), DtfMethodCount)
    /\ UNCHANGED <<phase, run, i, content, ncalls, prev, fs, log, stdout, failed>>

\* lines 156-158, 166-168, 176-178: the class file is written and the loop
\* goes on, or is left for the next one (`content` is not read again before
\* the next call assigns it: it leaves the state here)
WriteClassFile ==
    /\ pc = "write"
    /\ fs' = WriteFile(fs, FileName, Stored(content))
    /\ log' = Append(log, FileName)
    /\ IF i + 1 < LoopCount(phase)
       THEN /\ i' = i + 1
            /\ pc' = "call"
            /\ phase' = phase
       ELSE /\ i' = 0
            /\ pc' = IF NextPhase(phase) = "summary" THEN "summary" ELSE "call"
            /\ phase' = NextPhase(phase)
    /\ content' = NoContent
    /\ UNCHANGED <<run, fn, namespace, class_name, method_count, gen_i, k, sample,
                   methods, sampler_calls, ncalls, prev, stdout, failed>>

\* lines 157-158, 167-168, 177-178: open() or write() raises
WriteClassFileFails ==
    /\ pc = "write"
    /\ \E truncated \in BOOLEAN :
          fs' = IF truncated THEN TruncateFile(fs, FileName) ELSE fs
    /\ failed' = FileName
    /\ pc' = OnWriteError(pc)
    /\ UNCHANGED <<phase, run, i, fn, namespace, class_name, method_count, gen_i,
                   k, sample, methods, sampler_calls, content, ncalls, prev, log,
                   stdout>>

\* lines 181-198
WriteSummary ==
    /\ pc = "summary"
    /\ fs' = WriteFile(fs, SummaryFileName, summary)
    /\ log' = Append(log, SummaryFileName)
    /\ pc' = "print"
    /\ UNCHANGED <<phase, run, i, fn, namespace, class_name, method_count, gen_i,
                   k, sample, methods, sampler_calls, content, ncalls, prev,
                   stdout, failed>>

\* lines 197-198: open() or write() raises
WriteSummaryFails ==
    /\ pc = "summary"
    /\ \E truncated \in BOOLEAN :
          fs' = IF truncated THEN TruncateFile(fs, SummaryFileName) ELSE fs
    /\ failed' = SummaryFileName
    /\ pc' = OnWriteError(pc)
    /\ UNCHANGED <<phase, run, i, fn, namespace, class_name, method_count, gen_i,
                   k, sample, methods, sampler_calls, content, ncalls, prev, log,
                   stdout>>

\* lines 200-201
PrintTotals ==
    /\ pc = "print"
    /\ stdout' = << [total_files |-> total_files, total_methods |-> total_methods],
                    [low |-> 2200, high |-> 2750] >>
    /\ pc' = "done"
    /\ UNCHANGED <<phase, run, i, fn, namespace, class_name, method_count, gen_i,
                   k, sample, methods, sampler_calls, content, ncalls, prev, fs,
                   log, failed>>

\* the script is run again on the directory a complete run left
Rerun ==
    /\ pc = "done"
    /\ run < MaxRuns
    /\ run' = run + 1
    /\ pc' = "call"
    /\ phase' = "azure"
    /\ i' = 0
    /\ fn' = "none"
    /\ namespace' = << >>
    /\ class_name' = << >>
    /\ method_count' = 0
    /\ gen_i' = 0
    /\ methods' = << >>
    /\ sampler_calls' = 0
    /\ content' = NoContent
    /\ log' = << >>
    /\ stdout' = << >>
    /\ UNCHANGED <<k, sample, ncalls, prev, fs, failed>>

Init ==
    /\ pc = "call"
    /\ phase = "azure"
    /\ run = 1
    /\ i = 0
    /\ fn = "none"
    /\ namespace = << >>
    /\ class_name = << >>
    /\ method_count = 0
    /\ gen_i = 0
    /\ k = 0
    /\ sample = << >>
    /\ methods = << >>
    /\ sampler_calls = 0
    /\ content = NoContent
    /\ ncalls = 0
    /\ prev = NoContent
    /\ fs = [x \in {} |-> x]
    /\ log = << >>
    /\ stdout = << >>
    /\ failed = NoFile

\* one step of a run of main
Step ==
    \/ CallGenerateOrchestrator
    \/ CallGenerateActivity
    \/ CallGenerateDtfOrchestrator
    \/ DrawSize
    \/ Pick(MainDrawWidth)
    \/ ActivityStep
    \/ Return
    \/ WriteClassFile
    \/ WriteClassFileFails
    \/ WriteSummary
    \/ WriteSummaryFails
    \/ PrintTotals

Next == Step \/ Rerun

Spec == Init /\ [][Next]_vars

\* one run of main, which goes on until it ends or raises
FairSpec == Init /\ [][Step]_vars /\ WF_vars(Step)

(***************************************************************************)
(* One generator called on its own.                                        *)
(***************************************************************************)
\* the index the arguments of a call are built from
ArgIndex(f) ==
    CASE f = "generate_orchestrator" -> NumAzureOrchestrators - 1
      [] f = "generate_activity" -> NumAzureActivities - 1
      [] f = "generate_dtf_orchestrator" -> NumDtfOrchestrators - 1

ArgNamespace(f) ==
    CASE f = "generate_orchestrator" -> AzureNamespace(ArgIndex(f))
      [] f = "generate_activity" -> ActivityNamespace(ArgIndex(f))
      [] f = "generate_dtf_orchestrator" -> DtfNamespace(ArgIndex(f))

ArgClassName(f) ==
    CASE f = "generate_orchestrator" -> AzureClassName(ArgIndex(f))
      [] f = "generate_activity" -> ActivityClassName(ArgIndex(f))
      [] f = "generate_dtf_orchestrator" -> DtfClassName(ArgIndex(f))

\* the method counts a call is explored with
MethodCounts(f) == {DefaultMethodCount(f), MaxMethodCount}

InitGen ==
    /\ pc = "gen"
    /\ phase = "unit"
    /\ run = 1
    /\ i = 0
    /\ fn \in Generators
    /\ namespace = ArgNamespace(fn)
    /\ class_name = ArgClassName(fn)
    /\ method_count \in MethodCounts(fn)
    /\ gen_i = 0
    /\ k = 0
    /\ sample = << >>
    /\ methods = << >>
    /\ sampler_calls = 0
    /\ content = NoContent
    /\ ncalls = 1
    /\ prev = NoContent
    /\ fs = [x \in {} |-> x]
    /\ log = << >>
    /\ stdout = << >>
    /\ failed = NoFile

\* generate_activity is called again with the same arguments.  (A second
\* call of an orchestrator generator is not explored: the first call's
\* sampled text would stay in the state through all of the second.)
CallAgain ==
    /\ pc = "returned"
    /\ fn = "generate_activity"
    /\ ncalls < MaxCalls
    /\ ncalls' = ncalls + 1
    /\ prev' = content
    /\ content' = NoContent
    /\ gen_i' = 0
    /\ methods' = << >>
    /\ sampler_calls' = 0
    /\ pc' = "gen"
    /\ UNCHANGED <<phase, run, i, fn, namespace, class_name, method_count, k,
                   sample, fs, log, stdout, failed>>

NextGen ==
    \/ DrawSize
    \/ Pick(Len(violations))
    \/ ActivityStep
    \/ Return
    \/ CallAgain

SpecGen == InitGen /\ [][NextGen]_vars

(***************************************************************************)
(* Properties.                                                             *)
(***************************************************************************)
Range(q) == {q[x] : x \in 1..Len(q)}

\* the orchestrator methods whose sampled lines are in the state
DetailedMethods ==
    IF fn \in Orchestrators
    THEN {m \in Range(methods) \cup Range(content.methods) : m.detail}
    ELSE {}

Catalog == Range(violations)

ClassFiles(names) == {f \in names : f[3] = ".cs"}

RECURSIVE SumMethodCounts(_)
\* the number of methods in the class files named
SumMethodCounts(names) ==
    IF names = {} THEN 0
    ELSE LET f == CHOOSE x \in names : TRUE
         IN  fs[f].text.method_count + SumMethodCounts(names \ {f})

\* the value of three decimal digits
Val3(d) == 100 * d[1] + 10 * d[2] + d[3]

\* C1: every orchestrator method rendered, whatever the random choices, embeds
\* between 1 and 4 violations, pairwise distinct, each an entry of the fixed
\* catalog of 10.
C1_ViolationsFromCatalog ==
    /\ Len(violations) = 10
    /\ \A m \in DetailedMethods :
          /\ Len(m.locals) \in 1..4
          /\ \A a, b \in 1..Len(m.locals) :
                a # b => m.locals[a].value # m.locals[b].value
          /\ \A a \in 1..Len(m.locals) : m.locals[a].value \in Catalog

C1_Witness ==
    /\ pc = "returned"
    /\ fn = "generate_dtf_orchestrator"
    /\ Len(content.methods) = MaxMethodCount
    /\ \E m \in DetailedMethods :
          /\ Len(m.locals) = 4
          /\ m.locals[1].value = "Task.Run(() => {})"
          /\ m.locals[4].value = "DateTime.Now"

\* C2: after a complete run every class file holds the number of methods
\* configured for its profile (8, 5, 6), so that the methods in the class
\* files number 700, the total_methods the summary and stdout report.
C2_MethodCounts ==
    pc = "done" =>
        /\ \A idx \in 0..49 : fs[AzureFileName(idx)].text.method_count = 8
        /\ \A idx \in 0..29 : fs[ActivityFileName(idx)].text.method_count = 5
        /\ \A idx \in 0..24 : fs[DtfFileName(idx)].text.method_count = 6
        /\ SumMethodCounts(ClassFiles(Range(log))) = 700
        /\ fs[SummaryFileName].text.total_methods = 700
        /\ stdout[1].total_methods = 700

C2_Witness ==
    /\ pc = "done"
    /\ run = 1
    /\ Cardinality(ClassFiles(Range(log))) = 105

\* C3: after a complete run the class files the run generated number
\* 50 + 30 + 25 = 105, the total_files the summary and stdout report.
C3_FileCount ==
    pc = "done" =>
        /\ Cardinality(ClassFiles(Range(log))) = 50 + 30 + 25
        /\ Cardinality(ClassFiles(DOMAIN fs)) = 105
        /\ \A f \in ClassFiles(DOMAIN fs) : fs[f].complete /\ fs[f].run = run
        /\ fs[SummaryFileName].text.total_files = 105
        /\ stdout[1].total_files = 105

C3_Witness ==
    /\ pc = "done"
    /\ Len(log) = 106
    /\ Len(stdout) = 2

\* C4: every orchestrator method carries the 4 to 5 violations the summary
\* states (line 194).
C4_SummaryViolationsPerMethod ==
    \A m \in DetailedMethods :
        Len(m.locals) \in summary.per_method.low..summary.per_method.high

\* C5: in a run that follows a complete run, no step that does not raise
\* adds or removes a file name or changes the class name, namespace or
\* method count a file holds, and the existing file never prevents a write.
C5_Rerun ==
    /\ [][(run > 1 /\ failed' = NoFile) =>
            /\ DOMAIN fs' = DOMAIN fs
            /\ \A f \in DOMAIN fs : fs'[f].text = fs[f].text /\ fs'[f].complete
         ]_vars
    /\ []((run > 1 /\ pc = "write") => ENABLED WriteClassFile)
    /\ []((run > 1 /\ pc = "summary") => ENABLED WriteSummary)

C5_Witness ==
    /\ run = 2
    /\ pc = "done"
    /\ \A f \in DOMAIN fs : fs[f].run = 2
    /\ Cardinality(DOMAIN fs) = 106

\* an activity method without the pieces that carry its index
ActivityBody(m) ==
    [m EXCEPT !.function_name[3] = << >>, !.name[2] = << >>,
              !.logged[2] = << >>, !.ret[2] = << >>]

ActivityMethodsFixed(ms) ==
    \A x \in 1..Len(ms) :
        /\ ActivityBody(ms[x]) = ActivityBody(ms[1])
        /\ ms[x].name[2] = Dec(x - 1)
        /\ ms[x].logged[2] = Dec(x - 1)
        /\ ms[x].ret[2] = Dec(x - 1)
        /\ ms[x].delay = <<10, 100>>
        /\ Len(ms[x].locals) = 3
        /\ \A a \in 1..Len(ms[x].locals) : ms[x].locals[a].name[1] # "temp"

\* C6: generate_activity never calls generate_orchestrator_violations, every
\* method has the same body apart from its index, with delay bounds 10 and
\* 100 and no sampled local, and a second call with the same arguments
\* returns the same text.
C6_ActivityDeterministic ==
    fn = "generate_activity" =>
        /\ sampler_calls = 0
        /\ k = 0
        /\ ActivityMethodsFixed(methods)
        /\ pc = "returned" =>
              /\ Len(content.methods) = method_count
              /\ ActivityMethodsFixed(content.methods)
              /\ ncalls > 1 => content = prev

C6_Witness ==
    /\ fn = "generate_activity"
    /\ pc = "returned"
    /\ ncalls = 2
    /\ Len(content.methods) = MaxMethodCount
    /\ prev # NoContent

\* the files of a run in the order main writes them
WriteOrder ==
    [n \in 1..106 |->
        IF n <= 50 THEN AzureFileName(n - 1)
        ELSE IF n <= 80 THEN ActivityFileName(n - 51)
        ELSE IF n <= 105 THEN DtfFileName(n - 81)
        ELSE SummaryFileName]

\* C7: once a write has raised, the run is over: nothing more is written or
\* printed, the summary is not written, no step follows, and the files the
\* run wrote before are complete and in place.
C7_AbortOnWriteFailure ==
    failed # NoFile =>
        /\ pc = "aborted"
        /\ ~ENABLED Next
        /\ stdout = << >>
        /\ failed \notin Range(log)
        /\ SummaryFileName \notin Range(log)
        /\ Len(log) < 106
        /\ failed = WriteOrder[Len(log) + 1]
        /\ \A n \in 1..Len(log) :
              /\ log[n] \in DOMAIN fs
              /\ fs[log[n]].complete
              /\ fs[log[n]].run = run

C7_Witness ==
    /\ failed = DtfFileName(3)
    /\ failed \in DOMAIN fs
    /\ ~fs[failed].complete
    /\ Len(log) = 83
    /\ run = 1

OrchestratorMethodShape(f, ms) ==
    \A x \in 1..Len(ms) :
        ms[x].detail =>
            /\ \A j \in 1..Len(ms[x].locals) :
                  ms[x].locals[j].name = <<"temp", Dec(j - 1)>>
            /\ Len(ms[x].calls) = 2
            /\ ms[x].calls[1].name[1] =
                  (IF f = "generate_orchestrator" THEN "Activity" ELSE "DtfActivity")
            /\ Len(ms[x].calls[1].name[2]) = 1
            /\ \E q \in 0..MaxMethodCount :
                  (x - 1) = 10 * q + ms[x].calls[1].name[2][1]
            /\ ms[x].calls[2].name =
                  (IF f = "generate_orchestrator"
                   THEN <<"CalculateActivity", << >> >>
                   ELSE <<"DtfCalculateActivity", << >> >>)
            /\ ms[x].ret =
                  (IF f = "generate_orchestrator" THEN "completed"
                   ELSE "dtf completed")

\* C8: in every orchestrator method the k violations are bound to the locals
\* temp0 .. temp(k-1); two activity calls follow, the first named by the
\* method index modulo 10, the second by a fixed name; the method returns
\* the completion marker.
C8_OrchestratorMethodShape ==
    fn \in Orchestrators =>
        /\ OrchestratorMethodShape(fn, methods)
        /\ OrchestratorMethodShape(fn, content.methods)

C8_Witness ==
    /\ pc = "returned"
    /\ fn = "generate_orchestrator"
    /\ Len(content.methods) = MaxMethodCount
    /\ MaxMethodCount > 10
    /\ content.methods[11].detail
    /\ Len(content.methods[11].locals) = 3
    /\ content.methods[11].calls[1].name = <<"Activity", <<0>> >>

ProfileOf(prefix) ==
    CASE prefix = "Azure_Orchestrator_" ->
            [class |-> "TestOrchestrator", ns |-> "Performance.Azure.Batch"]
      [] prefix = "Azure_Activity_" ->
            [class |-> "TestActivity", ns |-> "Performance.Azure.Activities.Batch"]
      [] prefix = "DTF_Orchestrator_" ->
            [class |-> "DtfOrchestrator", ns |-> "Performance.DTF.Batch"]

\* C9: every class file of a run is named by its profile's prefix and a
\* three-digit index, holds the class of that index in the namespace of
\* batch index div 10, and no name is written twice in a run.
C9_FileNames ==
    /\ Cardinality(Range(log)) = Len(log)
    /\ \A n \in 1..Len(log) :
          log[n] # SummaryFileName =>
              /\ log[n][1] \in {"Azure_Orchestrator_", "Azure_Activity_",
                                "DTF_Orchestrator_"}
              /\ Len(log[n][2]) = 3
              /\ fs[log[n]].text.class_name =
                    <<ProfileOf(log[n][1]).class, log[n][2]>>
              /\ fs[log[n]].text.namespace =
                    <<ProfileOf(log[n][1]).ns, Dec(Val3(log[n][2]) \div 10)>>
    /\ pc = "done" => Cardinality(Range(log)) = 106

C9_Witness ==
    /\ pc = "done"
    /\ Cardinality(DOMAIN fs) = 106
    /\ fs[ActivityFileName(29)].text.namespace[2] = <<2>>
    /\ fs[AzureFileName(49)].text.class_name[2] = <<0, 4, 9>>

C10_Order ==
    /\ Len(log) <= 106
    /\ \A n \in 1..Len(log) : log[n] = WriteOrder[n]
    /\ SummaryFileName \in Range(log) => Len(log) = 106
    /\ Len(stdout) \in {0, 2}
    /\ stdout # << >> => SummaryFileName \in Range(log)

\* C10: the files of a run are written in the fixed order (50 Azure
\* orchestrators, 30 activities, 25 DTF orchestrators, the summary), stdout
\* is printed only after the summary, and a run in which no write raises
\* reaches the end.
C10_OrderAndTermination ==
    /\ []C10_Order
    /\ (pc \notin {"done", "aborted"}) ~> (pc \in {"done", "aborted"})
    /\ [](pc = "aborted" => failed # NoFile)

C10_Witness ==
    /\ pc = "done"
    /\ Len(log) = 106
    /\ Len(stdout) = 2

====
